---- MODULE Spec2Model ----
(***************************************************************************)
(* Model of packages/@expressive-code/core/src/hast.ts: the class-name     *)
(* helpers, the inline-style helpers (on top of the postcss declaration    *)
(* parser and stringifier) and the line-break preprocessing of             *)
(* fromInlineMarkdown.                                                     *)
(*                                                                         *)
(* A JS string is a sequence of characters, each a one-character TLA+      *)
(* string; the keyword !important is carried as one element, since none of *)
(* its letters is otherwise in the style alphabet.                         *)
(***************************************************************************)
EXTENDS Naturals, Sequences, FiniteSets

VARIABLES node, pre, op, ret, styles, ref, markdown

vars == <<node, pre, op, ret, styles, ref, markdown>>

\* ------------------------------------------------------------------ bounds

\* longest markdown input
MaxMdLen == 5
\* longest class-name string, as a className value or as an argument
MaxClassStrLen == 3
\* longest class-name array, as a className value or as an argument
MaxClassArrLen == 2
\* longest style string of those enumerated character by character
MaxStyleLen == 4
\* most declarations of a style string joined from whole declarations
MaxDecls == 3

\* ------------------------------------------------------------ JS strings

\* all sequences over S of length at most n
RECURSIVE SeqsUpTo(_, _)
SeqsUpTo(S, n) ==
    IF n = 0 THEN {<<>>}
    ELSE LET shorter == SeqsUpTo(S, n - 1)
         IN  shorter \cup {Append(s, c) : s \in {t \in shorter : Len(t) = n - 1}, c \in S}

\* [^\S\r\n]: white space that is neither CR nor LF
IsHSpace(c) == c \in {" ", "\t"}

\* the first position >= i of s that holds no horizontal white space
RECURSIVE SkipHSpace(_, _)
SkipHSpace(s, i) ==
    IF i <= Len(s) /\ IsHSpace(s[i]) THEN SkipHSpace(s, i + 1) ELSE i

\* the position after \r?\n at i, or 0 when s has no line break at i
AfterLineBreak(s, i) ==
    IF i <= Len(s) /\ s[i] = "\n" THEN i + 1
    ELSE IF i + 1 <= Len(s) /\ s[i] = "\r" /\ s[i + 1] = "\n" THEN i + 2
    ELSE 0

\* markdown.replaceAll(/[^\S\r\n]*\r?\n[^\S\r\n]*/g, '\n'), from position i
RECURSIVE NormalizeFrom(_, _)
NormalizeFrom(s, i) ==
    IF i > Len(s) THEN <<>>
    ELSE LET lb == AfterLineBreak(s, SkipHSpace(s, i))
         IN  IF lb # 0
             THEN <<"\n">> \o NormalizeFrom(s, SkipHSpace(s, lb))
             ELSE <<s[i]>> \o NormalizeFrom(s, i + 1)

NormalizeLineBreaks(s) == NormalizeFrom(s, 1)

\* the first position >= i of s that holds no \n
RECURSIVE SkipNewlines(_, _)
SkipNewlines(s, i) ==
    IF i <= Len(s) /\ s[i] = "\n" THEN SkipNewlines(s, i + 1) ELSE i

\* part.replaceAll(/\n+/g, ' '), from position i
RECURSIVE CollapseFrom(_, _)
CollapseFrom(s, i) ==
    IF i > Len(s) THEN <<>>
    ELSE IF s[i] = "\n" THEN <<" ">> \o CollapseFrom(s, SkipNewlines(s, i))
    ELSE <<s[i]>> \o CollapseFrom(s, i + 1)

\* part.replaceAll(/\n/g, ' ') in place of /\n+/g: one space per \n
CollapseEachNewline(s) == [i \in 1..Len(s) |-> IF s[i] = "\n" THEN " " ELSE s[i]]

CollapseNewlines(s) == CollapseFrom(s, 1)

\* markdown.split(/\n{2,}/): cur is the part being read, i the position
RECURSIVE SplitFrom(_, _, _)
SplitFrom(s, i, cur) ==
    IF i > Len(s) THEN <<cur>>
    ELSE IF s[i] = "\n" /\ SkipNewlines(s, i) >= i + 2
    THEN <<cur>> \o SplitFrom(s, SkipNewlines(s, i), <<>>)
    ELSE SplitFrom(s, i + 1, Append(cur, s[i]))

\* markdown.split(/\n+/) in place of /\n{2,}/: every \n ends a part
RECURSIVE SplitAtEveryRun(_, _, _)
SplitAtEveryRun(s, i, cur) ==
    IF i > Len(s) THEN <<cur>>
    ELSE IF s[i] = "\n" THEN <<cur>> \o SplitAtEveryRun(s, SkipNewlines(s, i), <<>>)
    ELSE SplitAtEveryRun(s, i + 1, Append(cur, s[i]))

SplitParagraphsAtEveryNewline(s) == SplitAtEveryRun(s, 1, <<>>)

SplitParagraphs(s) == SplitFrom(s, 1, <<>>)

\* ------------------------------------------------------ fromInlineMarkdown

\* the token sequence of a string: the tokenizer is not part of hast.ts and is
\* kept uninterpreted
tokenizeInlineMarkdown(s) == [tokensOf |-> s]

\* the root the parser builds from a token sequence; its children stand for
\* the inline nodes of that one token sequence
inlineMarkdownTokensToHast(tokens, autolink) ==
    [type |-> "root",
     children |-> <<[type |-> "inline", source |-> tokens.tokensOf, autolink |-> autolink]>>]

\* h('p', root): a root given as a child contributes its children
Paragraph(root) == [type |-> "element", tagName |-> "p", children |-> root.children]

RECURSIVE Flatten(_)
Flatten(lists) ==
    IF lists = <<>> THEN <<>> ELSE Head(lists) \o Flatten(Tail(lists))

\* const { paragraphs = false, autolink = true } = options
OptionOr(value, default) == IF value = "undefined" THEN default ELSE value = "true"

MarkdownParts(normalized, paragraphs) ==
    IF paragraphs THEN SplitParagraphs(normalized) ELSE <<normalized>>

MarkdownContent(part, paragraphs, autolink) ==
    LET tokens == tokenizeInlineMarkdown(CollapseNewlines(part))
        root   == inlineMarkdownTokensToHast(tokens, autolink)
    IN  IF paragraphs THEN <<Paragraph(root)>> ELSE root.children

fromInlineMarkdown(md, options) ==
    LET paragraphs == OptionOr(options.paragraphs, FALSE)
        autolink   == OptionOr(options.autolink, TRUE)
        normalized == NormalizeLineBreaks(md)
        parts      == MarkdownParts(normalized, paragraphs)
    IN  [type |-> "root",
         children |-> Flatten([k \in 1..Len(parts) |->
                                  MarkdownContent(parts[k], paragraphs, autolink)])]

\* ------------------------------------------------------------ properties

\* an absent property value
Absent == [kind |-> "absent", str |-> <<>>, arr |-> <<>>]
StrValue(s) == [kind |-> "str", str |-> s, arr |-> <<>>]
ArrValue(a) == [kind |-> "arr", str |-> <<>>, arr |-> a]

\* setProperty(node, propertyName, value) with a value other than null, for
\* the two properties the helpers write
setProperty(n, propertyName, value) ==
    IF propertyName = "className"
    THEN [n EXCEPT !.hasProps = TRUE, !.className = value]
    ELSE [n EXCEPT !.hasProps = TRUE, !.style = value]

\* ------------------------------------------------------------ class names

\* s.split(' '): cur is the name being read, i the position
RECURSIVE SplitSpaceFrom(_, _, _)
SplitSpaceFrom(s, i, cur) ==
    IF i > Len(s) THEN <<cur>>
    ELSE IF s[i] = " " THEN <<cur>> \o SplitSpaceFrom(s, i + 1, <<>>)
    ELSE SplitSpaceFrom(s, i + 1, Append(cur, s[i]))

\* getClassNames of a property value or an argument: nothing for a missing
\* value, for true and for the empty string
ClassNamesOf(v) ==
    IF v.kind = "arr" THEN v.arr
    ELSE IF v.kind = "str" /\ v.str # <<>> THEN SplitSpaceFrom(v.str, 1, <<>>)
    ELSE <<>>

getClassNames(n) == IF n.hasProps THEN ClassNamesOf(n.className) ELSE <<>>

\* Array.prototype.indexOf, 1-based; 0 when x is not in a
IndexOf(a, x) ==
    IF \E i \in 1..Len(a) : a[i] = x
    THEN CHOOSE i \in 1..Len(a) : a[i] = x /\ \A j \in 1..(i - 1) : a[j] # x
    ELSE 0

\* the forEach without its indexOf test: every name is pushed
PushAll(combined, names) == combined \o names

\* the forEach of addClassNames: push each name that is not in the list yet
RECURSIVE PushMissing(_, _)
PushMissing(combined, names) ==
    IF names = <<>> THEN combined
    ELSE PushMissing(IF IndexOf(combined, Head(names)) = 0
                     THEN Append(combined, Head(names))
                     ELSE combined,
                     Tail(names))

addClassNames(n, classNames) ==
    setProperty(n, "className",
                ArrValue(PushMissing(getClassNames(n), ClassNamesOf(classNames))))

addClassName(n, className) == addClassNames(n, StrValue(className))

\* a.splice(i, 1)
Splice1(a, i) == SubSeq(a, 1, i - 1) \o SubSeq(a, i + 1, Len(a))

removeClassName(n, className) ==
    LET classNames == getClassNames(n)
        index      == IndexOf(classNames, className)
    IN  IF index = 0 THEN n
        ELSE setProperty(n, "className", ArrValue(Splice1(classNames, index)))

\* ---------------------------------------------------------- postcss.parse

\* the characters of a word: everything but white space, the colon, the
\* semicolon and the other characters that end a word in postcss's tokenizer
IsWordChar(c) == c \notin {" ", ":", ";"}

\* a ! ends the word before it, so !important starts a word of its own
StartsWithBang(c) == c = "!important"

\* the first position >= i of s that holds no space
RECURSIVE SkipSpaces(_, _)
SkipSpaces(s, i) ==
    IF i <= Len(s) /\ s[i] = " " THEN SkipSpaces(s, i + 1) ELSE i

\* the end (exclusive) of the word that starts before position i
RECURSIVE WordEnd(_, _)
WordEnd(s, i) ==
    IF i <= Len(s) /\ IsWordChar(s[i]) /\ ~StartsWithBang(s[i])
    THEN WordEnd(s, i + 1) ELSE i

\* postcss's tokenizer, from position i: space, word, ':' and ';' tokens
RECURSIVE Tokenize(_, _)
Tokenize(s, i) ==
    IF i > Len(s) THEN <<>>
    ELSE IF s[i] = " "
    THEN <<[type |-> "space", text |-> SubSeq(s, i, SkipSpaces(s, i) - 1)]>>
         \o Tokenize(s, SkipSpaces(s, i))
    ELSE IF s[i] \in {":", ";"}
    THEN <<[type |-> s[i], text |-> <<s[i]>>]>> \o Tokenize(s, i + 1)
    ELSE <<[type |-> "word", text |-> SubSeq(s, i, WordEnd(s, i + 1) - 1)]>>
         \o Tokenize(s, WordEnd(s, i + 1))

RECURSIVE TokenText(_)
TokenText(tokens) ==
    IF tokens = <<>> THEN <<>> ELSE Head(tokens).text \o TokenText(Tail(tokens))

HasColon(tokens) == \E i \in 1..Len(tokens) : tokens[i].type = ":"

\* tokens without the space tokens at their end
RECURSIVE DropSpacesFromEnd(_)
DropSpacesFromEnd(tokens) ==
    IF tokens # <<>> /\ tokens[Len(tokens)].type = "space"
    THEN DropSpacesFromEnd(SubSeq(tokens, 1, Len(tokens) - 1))
    ELSE tokens

\* tokens without the space tokens at their start
RECURSIVE DropSpacesFromStart(_)
DropSpacesFromStart(tokens) ==
    IF tokens # <<>> /\ Head(tokens).type = "space"
    THEN DropSpacesFromStart(Tail(tokens))
    ELSE tokens

\* Parser.decl: the tokens before the first word go to raws.before; a lone
\* token that is no word is an unknown word. 0 when the parser throws, else
\* the position of the first word
RECURSIVE FirstWord(_, _)
FirstWord(tokens, i) ==
    IF tokens[i].type = "word" THEN i
    ELSE IF i = Len(tokens) THEN 0
    ELSE FirstWord(tokens, i + 1)

\* Parser.decl: the property is the text up to the first ':' or space
RECURSIVE PropEnd(_, _)
PropEnd(tokens, i) ==
    IF i <= Len(tokens) /\ tokens[i].type \notin {":", "space"}
    THEN PropEnd(tokens, i + 1) ELSE i

\* Parser.decl: raws.between runs to the first ':'; a word in it is an unknown
\* word. 0 when the parser throws, else the position after raws.between
RECURSIVE BetweenEnd(_, _)
BetweenEnd(tokens, i) ==
    IF i > Len(tokens) THEN i
    ELSE IF tokens[i].type = ":" THEN i + 1
    ELSE IF tokens[i].type = "word" THEN 0
    ELSE BetweenEnd(tokens, i + 1)

\* Parser.decl: the position of an !important that only spaces follow, else 0
RECURSIVE ImportantAt(_, _)
ImportantAt(tokens, i) ==
    IF i = 0 THEN 0
    ELSE IF tokens[i].text = <<"!important">> THEN i
    ELSE IF tokens[i].type = "space" THEN ImportantAt(tokens, i - 1)
    ELSE 0

\* Parser.decl: the value tokens without a trailing !important and the spaces
\* before it
StripImportant(tokens) ==
    LET at == ImportantAt(tokens, Len(tokens))
    IN  IF at = 0 THEN tokens ELSE DropSpacesFromEnd(SubSeq(tokens, 1, at - 1))

\* Parser.raw: the text of the tokens, without a space token that is the last
RawValue(tokens) ==
    IF tokens # <<>> /\ tokens[Len(tokens)].type = "space"
    THEN TokenText(SubSeq(tokens, 1, Len(tokens) - 1))
    ELSE TokenText(tokens)

\* Parser.decl on the tokens of one declaration, the ';' that ends it left
\* out: the declaration, or a thrown CssSyntaxError
PostcssDecl(tokens) ==
    LET first == FirstWord(tokens, 1)
        pend  == PropEnd(tokens, first)
        bend  == BetweenEnd(tokens, pend)
        rest  == StripImportant(DropSpacesFromStart(SubSeq(tokens, bend, Len(tokens))))
        value == RawValue(rest)
    IN  IF first = 0 \/ bend = 0 THEN [ok |-> FALSE]
        ELSE IF \E i \in 1..Len(value) : value[i] = ":" THEN [ok |-> FALSE]
        ELSE [ok |-> TRUE,
              decl |-> [prop |-> TokenText(SubSeq(tokens, first, pend - 1)),
                        value |-> value]]

\* the position of the first ';' token at or after i, or Len(tokens) + 1
RECURSIVE SemicolonAt(_, _)
SemicolonAt(tokens, i) ==
    IF i > Len(tokens) \/ tokens[i].type = ";" THEN i ELSE SemicolonAt(tokens, i + 1)

\* Parser.other on the tokens from the one that starts it up to the ';' or the
\* end of the input: a declaration when they hold a colon, else an unknown word
PostcssOther(tokens, endOfFile) ==
    IF ~HasColon(tokens) THEN [ok |-> FALSE]
    ELSE PostcssDecl(IF endOfFile THEN DropSpacesFromEnd(tokens) ELSE tokens)

\* Parser.parse, from token i: spaces and free semicolons are passed over,
\* every other token starts a declaration; decls are the root's nodes so far
RECURSIVE PostcssLoop(_, _, _)
PostcssLoop(tokens, i, decls) ==
    IF i > Len(tokens) THEN [ok |-> TRUE, decls |-> decls]
    ELSE IF tokens[i].type \in {"space", ";"} THEN PostcssLoop(tokens, i + 1, decls)
    ELSE LET semi == SemicolonAt(tokens, i)
             got  == PostcssOther(SubSeq(tokens, i, semi - 1), semi > Len(tokens))
         IN  IF got.ok THEN PostcssLoop(tokens, semi + 1, Append(decls, got.decl))
             ELSE [ok |-> FALSE, decls |-> decls]

\* a lenient parser: a declaration that fails is passed over
RECURSIVE PostcssLoopSkipping(_, _, _)
PostcssLoopSkipping(tokens, i, decls) ==
    IF i > Len(tokens) THEN [ok |-> TRUE, decls |-> decls]
    ELSE IF tokens[i].type \in {"space", ";"} THEN PostcssLoopSkipping(tokens, i + 1, decls)
    ELSE LET semi == SemicolonAt(tokens, i)
             got  == PostcssOther(SubSeq(tokens, i, semi - 1), semi > Len(tokens))
         IN  PostcssLoopSkipping(tokens, semi + 1,
                                 IF got.ok THEN Append(decls, got.decl) ELSE decls)

PostcssParseSkipping(s) == PostcssLoopSkipping(Tokenize(s, 1), 1, <<>>)

PostcssParse(s) == PostcssLoop(Tokenize(s, 1), 1, <<>>)

\* -------------------------------------------------------------- style maps

\* a Map<string, string>: its entries in iteration order
MapHas(m, prop) == \E i \in 1..Len(m) : m[i].prop = prop

MapGet(m, prop) == (CHOOSE i \in 1..Len(m) : m[i].prop = prop)

\* a set that removes the key first: a key of the map moves last
MapSetMovesLast(m, prop, value) ==
    LET at == IF MapHas(m, prop) THEN MapGet(m, prop) ELSE Len(m) + 1
    IN  Append(SubSeq(m, 1, at - 1) \o SubSeq(m, at + 1, Len(m)),
               [prop |-> prop, value |-> value])

\* Map.prototype.set: a new key goes last, a key of the map keeps its place
MapSet(m, prop, value) ==
    IF MapHas(m, prop)
    THEN [i \in 1..Len(m) |-> IF m[i].prop = prop
                               THEN [prop |-> prop, value |-> value] ELSE m[i]]
    ELSE Append(m, [prop |-> prop, value |-> value])

\* Map.prototype.delete
MapDelete(m, prop) ==
    IF MapHas(m, prop) THEN Splice1(m, MapGet(m, prop)) ELSE m

\* root.each: every declaration is set into the map, in order
RECURSIVE MapFromDecls(_, _)
MapFromDecls(m, decls) ==
    IF decls = <<>> THEN m
    ELSE MapFromDecls(MapSet(m, Head(decls).prop, Head(decls).value), Tail(decls))

\* String.prototype.trim
Trim(s) ==
    LET from == SkipSpaces(s, 1)
        RECURSIVE LastNonSpace(_)
        LastNonSpace(i) == IF i >= 1 /\ s[i] = " " THEN LastNonSpace(i - 1) ELSE i
    IN  SubSeq(s, from, LastNonSpace(Len(s)))

\* node.properties?.style?.toString().trim() || ''
StyleString(n) ==
    IF n.hasProps /\ n.style.kind = "str" THEN Trim(n.style.str) ELSE <<>>

\* the try block of getInlineStyles: the map of the parsed declarations, or
\* the error postcss.parse throws
ParseIntoMap(styleString) ==
    LET root == PostcssParse(styleString)
    IN  IF root.ok THEN [raised |-> FALSE, styles |-> MapFromDecls(<<>>, root.decls)]
        ELSE [raised |-> TRUE, styles |-> <<>>]

\* the try block without its catch: the error reaches the caller
RethrowParseError(attempt) == attempt

\* try { ... } catch (error) { }: the error is dropped, the map returned
CatchParseError(attempt) == [raised |-> FALSE, styles |-> attempt.styles]

\* a call of getInlineStyles: whether it raised, and the map it returned
getInlineStylesCall(n) ==
    IF StyleString(n) = <<>> THEN [raised |-> FALSE, styles |-> <<>>]
    ELSE CatchParseError(ParseIntoMap(StyleString(n)))

getInlineStyles(n) == getInlineStylesCall(n).styles

\* new Declaration({ prop, value, raws: { between: ':' } }).toString()
DeclarationToString(entry) == entry.prop \o <<":">> \o entry.value

\* [...].join(';')
RECURSIVE JoinDeclarations(_)
JoinDeclarations(strings) ==
    IF strings = <<>> THEN <<>>
    ELSE IF Len(strings) = 1 THEN Head(strings)
    ELSE Head(strings) \o <<";">> \o JoinDeclarations(Tail(strings))

SerializeStyles(m) == JoinDeclarations([i \in 1..Len(m) |-> DeclarationToString(m[i])])

setInlineStyles(n, m) == setProperty(n, "style", StrValue(SerializeStyles(m)))

\* a value argument of setInlineStyle: null, or a string
Null == [null |-> TRUE, str |-> <<>>]
Str(s) == [null |-> FALSE, str |-> s]

\* the map edit of setInlineStyle, with the default valueFormat 'raw'
EditStyles(m, cssProperty, value) ==
    IF ~value.null THEN MapSet(m, cssProperty, value.str) ELSE MapDelete(m, cssProperty)

setInlineStyle(n, cssProperty, value) ==
    setInlineStyles(n, EditStyles(getInlineStyles(n), cssProperty, value))

\* ------------------------------------------------------------------ state

MdChars == {"a", " ", "\n", "\r"}
MdInputs == SeqsUpTo(MdChars, MaxMdLen)
OptionValues == {"true", "false", "undefined"}

\* an element without a properties object
NoNode == [hasProps |-> FALSE, className |-> Absent, style |-> Absent]

InitMarkdown ==
    /\ node = NoNode
    /\ pre = NoNode
    /\ op = [name |-> "init"]
    /\ ret = [type |-> "none"]
    /\ styles = <<>>
    /\ ref = <<>>
    /\ markdown \in MdInputs

FromInlineMarkdown(options) ==
    /\ op' = [name |-> "fromInlineMarkdown", options |-> options]
    /\ ret' = fromInlineMarkdown(markdown, options)
    /\ UNCHANGED <<node, pre, styles, ref, markdown>>

NextMarkdown ==
    \E p \in OptionValues, a \in OptionValues :
        FromInlineMarkdown([paragraphs |-> p, autolink |-> a])

SpecMarkdown == InitMarkdown /\ [][NextMarkdown]_vars

\* ------------------------------------------------------- class-name calls

ClassChars == {"a", "b", " "}
\* the strings of one-letter names, with any spaces between and around them
ClassStrings ==
    {s \in SeqsUpTo(ClassChars, MaxClassStrLen) :
        \A i \in 1..(Len(s) - 1) : s[i] = " " \/ s[i + 1] = " "}
ArrNames == {<<"a">>, <<"b">>}
ClassArrays == SeqsUpTo(ArrNames, MaxClassArrLen)
ClassArgs == {StrValue(s) : s \in ClassStrings} \cup {ArrValue(a) : a \in ClassArrays}
ClassValues == ClassArgs \cup {Absent, [kind |-> "true", str |-> <<>>, arr |-> <<>>]}
RemoveArgs == ArrNames \cup {<<"a", "a">>}

InitClass ==
    /\ node \in {NoNode} \cup
                {[hasProps |-> TRUE, className |-> c, style |-> Absent] : c \in ClassValues}
    /\ pre = NoNode
    /\ op = [name |-> "init"]
    /\ ret = [type |-> "none"]
    /\ styles = <<>>
    /\ ref = <<>>
    /\ markdown = <<>>

AddClassNames(classNames) ==
    /\ pre' = node
    /\ op' = [name |-> "addClassNames", classNames |-> classNames]
    /\ node' = addClassNames(node, classNames)
    /\ UNCHANGED <<ret, styles, ref, markdown>>

AddClassName(className) ==
    /\ pre' = node
    /\ op' = [name |-> "addClassName", classNames |-> StrValue(className)]
    /\ node' = addClassName(node, className)
    /\ UNCHANGED <<ret, styles, ref, markdown>>

RemoveClassName(className) ==
    /\ pre' = node
    /\ op' = [name |-> "removeClassName", className |-> className]
    /\ node' = removeClassName(node, className)
    /\ UNCHANGED <<ret, styles, ref, markdown>>

NextClass ==
    \/ \E classNames \in ClassArgs : AddClassNames(classNames)
    \/ \E className \in ClassStrings : AddClassName(className)
    \/ \E className \in RemoveArgs : RemoveClassName(className)

SpecClass == InitClass /\ [][NextClass]_vars

\* ------------------------------------------------------ reading a style

StyleChars == {"a", "b", "1", ":", ";", " ", "!important"}
Segments == {<<"a", ":", "1">>, <<"a", ":", "2">>, <<"b", ":", "2">>,
             <<" ", "b", " ", ":", " ", "1", " ">>,
             <<"a", ":", "1", " ", "!important">>, <<"a", ":">>, <<"b">>, <<>>}

\* the segments joined by ';'
RECURSIVE JoinSegments(_)
JoinSegments(segs) ==
    IF Len(segs) <= 1 THEN (IF segs = <<>> THEN <<>> ELSE Head(segs))
    ELSE Head(segs) \o <<";">> \o JoinSegments(Tail(segs))

StyleInputs == SeqsUpTo(StyleChars, MaxStyleLen)
               \cup {JoinSegments(segs) : segs \in SeqsUpTo(Segments, MaxDecls)}

StyledNode(s) == [hasProps |-> TRUE, className |-> Absent, style |-> StrValue(s)]

InitParse ==
    /\ node \in {NoNode, [NoNode EXCEPT !.hasProps = TRUE]}
                \cup {StyledNode(s) : s \in StyleInputs}
    /\ pre = NoNode
    /\ op = [name |-> "init"]
    /\ ret = [type |-> "none"]
    /\ styles = <<>>
    /\ ref = <<>>
    /\ markdown = <<>>

GetInlineStyles ==
    /\ op' = [name |-> "getInlineStyles"]
    /\ ret' = getInlineStylesCall(node)
    /\ UNCHANGED <<node, pre, styles, ref, markdown>>

NextParse == GetInlineStyles

SpecParse == InitParse /\ [][NextParse]_vars

\* ------------------------------------------------------ writing a style

StyleProps == {<<"a">>, <<"b">>}
\* values without a semicolon
MapValues == {<<"1">>, <<"2">>, <<>>, <<"1", " ", "2">>, <<"1", " ", "!important">>}
RawValues == MapValues \cup {<<"1", ";", "b", ":", "2">>}
InitStyles == {<<>>, <<"a", ":", "1">>, <<"b", ":", "2", ";", "a", ":", "1">>,
               <<"b">>, <<"a", ":", "1", ";", "a", ":", "2">>}

InitRoundTrip ==
    /\ node \in {NoNode} \cup {StyledNode(s) : s \in InitStyles}
    /\ pre = NoNode
    /\ op = [name |-> "init"]
    /\ ret = [type |-> "none"]
    /\ styles = <<>>
    /\ ref = <<>>
    /\ markdown = <<>>

\* the caller sets an entry of its own map
StylesSet(prop, value) ==
    /\ styles' = MapSet(styles, prop, value)
    /\ op' = [name |-> "Map.set"]
    /\ UNCHANGED <<node, pre, ret, ref, markdown>>

\* the caller removes an entry of its own map
StylesDelete(prop) ==
    /\ styles' = MapDelete(styles, prop)
    /\ op' = [name |-> "Map.delete"]
    /\ UNCHANGED <<node, pre, ret, ref, markdown>>

\* setInlineStyles(node, styles)
SetInlineStyles ==
    /\ op' = [name |-> "setInlineStyles", styles |-> styles]
    /\ node' = setInlineStyles(node, styles)
    /\ UNCHANGED <<pre, ret, styles, ref, markdown>>

NextRoundTrip ==
    \/ \E prop \in StyleProps, value \in MapValues : StylesSet(prop, value)
    \/ \E prop \in StyleProps : StylesDelete(prop)
    \/ SetInlineStyles

SpecRoundTrip == InitRoundTrip /\ [][NextRoundTrip]_vars

\* ref is the ordered map of the node's first style attribute
InitEdit ==
    /\ node \in {NoNode} \cup {StyledNode(s) : s \in InitStyles}
    /\ pre = NoNode
    /\ op = [name |-> "init"]
    /\ ret = [type |-> "none"]
    /\ styles = <<>>
    /\ ref = getInlineStyles(node)
    /\ markdown = <<>>

\* setInlineStyle(node, cssProperty, value); ref takes the same edit
SetInlineStyle(cssProperty, value) ==
    /\ op' = [name |-> "setInlineStyle", cssProperty |-> cssProperty, value |-> value]
    /\ node' = setInlineStyle(node, cssProperty, value)
    /\ ref' = EditStyles(ref, cssProperty, value)
    /\ UNCHANGED <<pre, ret, styles, markdown>>

NextEdit ==
    \E prop \in StyleProps, value \in {Null} \cup {Str(v) : v \in RawValues} :
        SetInlineStyle(prop, value)

SpecEdit == InitEdit /\ [][NextEdit]_vars

\* ===================================================================
\* Properties
\* ===================================================================

\* ------------------------------------------------------------ round trip

\* C1: after setInlineStyles(node, m), for a map m built by set and delete
\* calls whose values hold no semicolon, getInlineStyles(node) is m: the same
\* entries in the same order.
C1_RoundTrip ==
    op.name = "setInlineStyles" => getInlineStyles(node) = op.styles

\* --------------------------------------------------- duplicate properties

ParsedRoot == PostcssParse(StyleString(node))

FirstDecl(decls, prop) ==
    CHOOSE i \in 1..Len(decls) :
        decls[i].prop = prop /\ \A j \in 1..(i - 1) : decls[j].prop # prop

LastDecl(decls, prop) ==
    CHOOSE i \in 1..Len(decls) :
        decls[i].prop = prop /\ \A j \in (i + 1)..Len(decls) : decls[j].prop # prop

\* C2: for a style string that parses, the map getInlineStyles returns has one
\* entry per distinct property of the declarations, in the order of the first
\* declaration of each property, with the value of its last declaration.
C2_DuplicatePolicy ==
    (op.name = "getInlineStyles" /\ ParsedRoot.ok) =>
        LET decls == ParsedRoot.decls
            m     == ret.styles
        IN  /\ \A i \in 1..Len(decls) : \E k \in 1..Len(m) : m[k].prop = decls[i].prop
            /\ \A k \in 1..Len(m) : \E i \in 1..Len(decls) : decls[i].prop = m[k].prop
            /\ \A k \in 1..Len(m) :
                   m[k].value = decls[LastDecl(decls, m[k].prop)].value
            /\ \A k, l \in 1..Len(m) :
                   k < l => /\ m[k].prop # m[l].prop
                            /\ FirstDecl(decls, m[k].prop) < FirstDecl(decls, m[l].prop)

\* a:1;b:2;a:3 up to the names: the first property comes back third with
\* another value, and the map holds it first, with that value
C2_Witness ==
    /\ op.name = "getInlineStyles"
    /\ ParsedRoot.ok
    /\ Len(ParsedRoot.decls) = 3
    /\ ParsedRoot.decls[1].prop = ParsedRoot.decls[3].prop
    /\ ParsedRoot.decls[1].prop # ParsedRoot.decls[2].prop
    /\ ParsedRoot.decls[1].value # ParsedRoot.decls[3].value
    /\ ret.styles = <<[prop |-> ParsedRoot.decls[1].prop, value |-> ParsedRoot.decls[3].value],
                      ParsedRoot.decls[2]>>

\* ------------------------------------------------------ removing a property

\* C3: after setInlineStyle(node, p, v) with v null or the empty string, the
\* map read back from the node has no key p.
C3_EmptyValueRemoves ==
    (op.name = "setInlineStyle" /\ (op.value.null \/ op.value.str = <<>>)) =>
        ~MapHas(getInlineStyles(node), op.cssProperty)

\* ------------------------------------------------------- malformed styles

\* C4: getInlineStyles never raises, and returns an empty map for a node
\* without a style attribute, for an empty or blank style string and for a
\* style string postcss fails to parse, whatever was parsed before the failure.
C4_MalformedTolerance ==
    op.name = "getInlineStyles" =>
        /\ ~ret.raised
        /\ (~node.hasProps \/ node.style.kind = "absent") => ret.styles = <<>>
        /\ (node.hasProps /\ node.style.kind = "str"
              /\ \A i \in 1..Len(node.style.str) : node.style.str[i] = " ")
               => ret.styles = <<>>
        /\ ~ParsedRoot.ok => ret.styles = <<>>

\* the parse fails after at least one declaration was read
C4_Witness ==
    /\ op.name = "getInlineStyles"
    /\ ~ParsedRoot.ok
    /\ ParsedRoot.decls # <<>>
    /\ ~ret.raised
    /\ ret.styles = <<>>

\* the declarations of a style string as the text between its semicolons
RECURSIVE SplitSemicolons(_, _, _)
SplitSemicolons(s, i, cur) ==
    IF i > Len(s) THEN <<cur>>
    ELSE IF s[i] = ";" THEN <<cur>> \o SplitSemicolons(s, i + 1, <<>>)
    ELSE SplitSemicolons(s, i + 1, Append(cur, s[i]))

StyleSegments == SplitSemicolons(StyleString(node), 1, <<>>)

\* a declaration without a colon: words and spaces only, at least one word
IsBareWords(seg) ==
    /\ \E i \in 1..Len(seg) : seg[i] # " "
    /\ \A i \in 1..Len(seg) : seg[i] # ":"

\* property ':' value, with one colon, a property of plain characters and a
\* value that is not empty
IsWellFormed(seg) ==
    \E c \in 1..Len(seg) :
        /\ seg[c] = ":"
        /\ \A i \in 1..Len(seg) : seg[i] = ":" => i = c
        /\ Trim(SubSeq(seg, 1, c - 1)) # <<>>
        /\ \A i \in 1..Len(Trim(SubSeq(seg, 1, c - 1))) :
               Trim(SubSeq(seg, 1, c - 1))[i] \notin {" ", "!important"}
        /\ Trim(SubSeq(seg, c + 1, Len(seg))) # <<>>

\* the declaration split on its colon into trimmed property and value
SegmentDecl(seg) ==
    LET c == CHOOSE i \in 1..Len(seg) : seg[i] = ":"
    IN  [prop |-> Trim(SubSeq(seg, 1, c - 1)), value |-> Trim(SubSeq(seg, c + 1, Len(seg)))]

RECURSIVE WellFormedDecls(_)
WellFormedDecls(segs) ==
    IF segs = <<>> THEN <<>>
    ELSE (IF IsWellFormed(Head(segs)) THEN <<SegmentDecl(Head(segs))>> ELSE <<>>)
         \o WellFormedDecls(Tail(segs))

\* one declaration of the list is malformed, every other one is well formed,
\* and there is one
OneMalformedDeclaration ==
    /\ Cardinality({i \in 1..Len(StyleSegments) : IsBareWords(StyleSegments[i])}) = 1
    /\ \A i \in 1..Len(StyleSegments) :
           IsBareWords(StyleSegments[i]) \/ IsWellFormed(StyleSegments[i])
    /\ \E i \in 1..Len(StyleSegments) : IsWellFormed(StyleSegments[i])

\* C5 as stated: a single malformed declaration in an otherwise valid list is
\* skipped, and getInlineStyles returns the map of the well-formed
\* declarations, not an empty map.
C5_MalformedSkipped ==
    (op.name = "getInlineStyles" /\ OneMalformedDeclaration) =>
        /\ ret.styles # <<>>
        /\ \A k \in 1..Len(WellFormedDecls(StyleSegments)) :
               MapHas(ret.styles, WellFormedDecls(StyleSegments)[k].prop)

\* C5 as amended: a declaration without a colon anywhere in the list makes
\* the whole style string fail to parse, and getInlineStyles returns an empty
\* map, whatever the other declarations are.
C5_MalformedEmptiesAll ==
    (op.name = "getInlineStyles"
       /\ \E i \in 1..Len(StyleSegments) : IsBareWords(StyleSegments[i]))
        => ret.styles = <<>>

\* one malformed declaration among well-formed ones, and an empty map
C5_Witness ==
    /\ op.name = "getInlineStyles"
    /\ OneMalformedDeclaration
    /\ Len(WellFormedDecls(StyleSegments)) >= 2
    /\ ret.styles = <<>>

\* --------------------------------------------------------------- markdown

\* a line break starts at position i: \n, or \r before \n
IsBreakAt(s, i) == s[i] = "\n" \/ (s[i] = "\r" /\ i < Len(s) /\ s[i + 1] = "\n")

\* position i is part of a line break or of the horizontal white space
\* around one
InBreak(s, i) ==
    \/ IsBreakAt(s, i)
    \/ /\ s[i] \in {" ", "\t"}
       /\ \/ \E j \in (i + 1)..Len(s) :
                 IsBreakAt(s, j) /\ \A k \in (i + 1)..(j - 1) : s[k] \in {" ", "\t"}
          \/ \E j \in 1..(i - 1) :
                 s[j] = "\n" /\ \A k \in (j + 1)..(i - 1) : s[k] \in {" ", "\t"}

\* s with every maximal run of line breaks and the white space around them
\* replaced by one space
RECURSIVE BreaksToSpaces(_, _)
BreaksToSpaces(s, i) ==
    IF i > Len(s) THEN <<>>
    ELSE (IF ~InBreak(s, i) THEN <<s[i]>>
          ELSE IF i = 1 \/ ~InBreak(s, i - 1) THEN <<" ">>
          ELSE <<>>) \o BreaksToSpaces(s, i + 1)

\* s with every line break and the white space around it replaced by one \n
RECURSIVE BreaksToNewlines(_, _)
BreaksToNewlines(s, i) ==
    IF i > Len(s) THEN <<>>
    ELSE (IF ~InBreak(s, i) THEN <<s[i]>>
          ELSE IF s[i] = "\n" THEN <<"\n">>
          ELSE <<>>) \o BreaksToNewlines(s, i + 1)

\* the positions where a run of two or more \n starts, and where it ends
RunStarts(s) ==
    {i \in 1..Len(s) : /\ s[i] = "\n"
                       /\ i < Len(s) /\ s[i + 1] = "\n"
                       /\ (i = 1 \/ s[i - 1] # "\n")}

RunEnd(s, i) ==
    CHOOSE j \in i..Len(s) :
        /\ \A k \in i..j : s[k] = "\n"
        /\ (j = Len(s) \/ s[j + 1] # "\n")

\* the k-th start, counting from 1
NthRunStart(s, k) ==
    CHOOSE i \in RunStarts(s) : Cardinality({j \in RunStarts(s) : j < i}) = k - 1

\* the k-th chunk between the runs
Chunk(s, k) ==
    LET from == IF k = 1 THEN 1 ELSE RunEnd(s, NthRunStart(s, k - 1)) + 1
        to   == IF k = Cardinality(RunStarts(s)) + 1 THEN Len(s)
                ELSE NthRunStart(s, k) - 1
    IN  SubSeq(s, from, to)

\* a chunk holds single \n only: each becomes a space
NewlinesToSpaces(s) == [i \in 1..Len(s) |-> IF s[i] = "\n" THEN " " ELSE s[i]]

OptionIs(name, value) ==
    IF name = "paragraphs" THEN op.options.paragraphs = value
    ELSE op.options.autolink = value

\* C6: with paragraphs = true the root's children are one paragraph element
\* per chunk of the normalized input split on runs of two or more \n, in
\* order; each holds the nodes of its own chunk alone, tokenized with its \n
\* replaced by spaces.
C6_Paragraphs ==
    (op.name = "fromInlineMarkdown" /\ OptionIs("paragraphs", "true")) =>
        LET normalized == BreaksToNewlines(markdown, 1)
            count      == Cardinality(RunStarts(normalized)) + 1
        IN  /\ ret.type = "root"
            /\ Len(ret.children) = count
            /\ \A k \in 1..count :
                   ret.children[k] =
                       [type |-> "element", tagName |-> "p",
                        children |-> <<[type |-> "inline",
                                        source |-> NewlinesToSpaces(Chunk(normalized, k)),
                                        autolink |-> ~OptionIs("autolink", "false")]>>]

\* two paragraphs with text, one of them with a line break inside
C6_Witness ==
    /\ op.name = "fromInlineMarkdown"
    /\ OptionIs("paragraphs", "true")
    /\ OptionIs("autolink", "undefined")
    /\ Len(ret.children) = 2
    /\ \A k \in 1..2 : \E i \in 1..Len(ret.children[k].children[1].source) :
           ret.children[k].children[1].source[i] = "a"
    /\ \E k \in 1..2 : \E i \in 1..Len(Chunk(BreaksToNewlines(markdown, 1), k)) :
           Chunk(BreaksToNewlines(markdown, 1), k)[i] = "\n"

Names(a) == {a[i] : i \in 1..Len(a)}

\* C8: after addClassNames(node, names) every given name is on the node, the
\* names the node had keep their places, the names added are given names that
\* the node did not have, each added once, and the same call again changes
\* nothing.
C8_AddClassNames ==
    op.name \in {"addClassNames", "addClassName"} =>
        LET before == getClassNames(pre)
            after  == getClassNames(node)
            given  == ClassNamesOf(op.classNames)
            added  == SubSeq(after, Len(before) + 1, Len(after))
        IN  /\ Names(given) \subseteq Names(after)
            /\ Len(after) >= Len(before)
            /\ SubSeq(after, 1, Len(before)) = before
            /\ Names(added) \subseteq Names(given) \ Names(before)
            /\ \A i, j \in 1..Len(added) : added[i] = added[j] => i = j
            /\ addClassNames(node, op.classNames) = node

\* the input names a class of the node and repeats a new one
C8_Witness ==
    /\ op.name = "addClassNames"
    /\ getClassNames(pre) # <<>>
    /\ LET given == ClassNamesOf(op.classNames)
       IN  /\ \E i \in 1..Len(given) : given[i] \in Names(getClassNames(pre))
           /\ \E i, j \in 1..Len(given) :
                  i < j /\ given[i] = given[j] /\ given[i] \notin Names(getClassNames(pre))
    /\ Len(getClassNames(node)) = Len(getClassNames(pre)) + 1

\* a without the elements equal to x
RECURSIVE Without(_, _)
Without(a, x) ==
    IF a = <<>> THEN <<>>
    ELSE (IF Head(a) = x THEN <<>> ELSE <<Head(a)>>) \o Without(Tail(a), x)

\* C9: removeClassName(node, c) leaves the node as it is when c is not among
\* its class names; when it is, c is not among them afterwards and the other
\* names keep their values and order.
C9_RemoveClassName ==
    op.name = "removeClassName" =>
        IF op.className \notin Names(getClassNames(pre))
        THEN node = pre
        ELSE /\ op.className \notin Names(getClassNames(node))
             /\ getClassNames(node) = Without(getClassNames(pre), op.className)

\* ----------------------------------------------------------- style edits

\* C10: after any sequence of setInlineStyle calls the map read back from the
\* node is the node's first style map with the same sets and deletes applied.
C10_EditsActOnMap == getInlineStyles(node) = ref

====
